---- MODULE Spec2Model ----
(***************************************************************************)
(* A model of wst: a WebSocket <-> TCP tunnel.                             *)
(*   server side : Handler (buffer pool, keepalive, the two copy loops),   *)
(*                 CopyBufferWithWriteTimeout, Server (Serve / Shutdown)   *)
(*   client side : ConnectConfig, the option functions, Dialer,            *)
(*                 parseAddrAndPort / generateDialConfig                   *)
(***************************************************************************)
EXTENDS Integers, Sequences, FiniteSets, TLC

(***************************************************************************)
(* Bounds of the model.                                                    *)
(***************************************************************************)
MaxBytes == 2           \* bytes the peers of a session send, both streams together
MaxCalls == 3           \* calls of Serve / Shutdown / Close on the one Server
MaxReads == 2           \* reads a copy over an arbitrary reader makes
MaxAddrLen == 3         \* characters of an address given to parseAddrAndPort
MaxOpts == 2            \* options given to one call of NewDialer / DialContext

\* DefaultBufferSize = 16 * 1024 in the source; scaled down to two bytes.
DefaultBufferSize == 2

Sessions == {1, 2}          \* the sessions that may be accepted
Dirs == {"w2t", "t2w"}      \* w2t: the goroutine of handleNetwork, t2w: its caller
Callers == {"a", "b"}       \* the goroutines that call the Server's methods
BufIds == 1..(2 * Cardinality(Sessions))

\* The code never inspects the payload, so the k-th byte of a stream carries
\* its position (and its direction): any loss, repetition, reordering or
\* alteration of a byte shows in the sequence the sink receives.
Payload(d, k) == IF d = "w2t" THEN k ELSE 10 + k

Min(a, b) == IF a < b THEN a ELSE b

VARIABLES
    pool,       \* sharedBufferPool: the buffers that are in the pool
    bufs,       \* every buffer: allocated?, len of the slice, its cells, cut short once?
    hpc,        \* per session: where handleWebSocket / handleNetwork stands
    gpc,        \* per session: where the goroutine of handleNetwork stands
    kpc,        \* per session: where the keepalive goroutine stands
    exitc,      \* per session: the exit channel is closed
    tr,         \* per session, per transport: closed locally, closed by the peer
    cp,         \* per session, per direction: the frame of CopyBufferWithWriteTimeout
    strm        \* per session, per direction: bytes sent by the peer, read, written

sessVars == <<pool, bufs, hpc, gpc, kpc, exitc, tr, cp, strm>>

VARIABLES
    srv,        \* the Server: its fields and what net/http keeps for ps.server
    call,       \* per caller: the call of Serve / Shutdown / Close it is in
    ncalls,     \* calls made so far
    httpc       \* per session: how the http.Server tracks its connection

srvVars == <<srv, call, ncalls, httpc>>

VARIABLES
    cpy,        \* the frame of a CopyBufferWithWriteTimeout over any reader and sink
    ops         \* the calls that copy made on its reader and its sink, in order

copyVars == <<cpy, ops>>

VARIABLES
    paddr,      \* parseAddrAndPort: the address given
    ptls,       \* parseAddrAndPort: tlsEnabled
    pres        \* parseAddrAndPort: what it returned

parseVars == <<paddr, ptls, pres>>

VARIABLES
    heap,       \* the ConnectConfig structs: 0 is Dialer.config, k the clone of call k
    dphase,     \* NewDialer: applying its options (how many so far) / returned
    base0,      \* the configuration NewDialer returned with
    dcall       \* per DialContext call: where it stands, its pointer, its result

clientVars == <<heap, dphase, base0, dcall>>

VARIABLES
    cn          \* one call of ConnectWithConfig: where it stands, the steps it made

connVars == <<cn>>

otherVars == <<copyVars, parseVars, clientVars, connVars>>
vars == <<sessVars, srvVars, copyVars, parseVars, clientVars, connVars>>

\* a goroutine that panics takes the process down: nothing runs after it
Crashed == \E c \in Callers : call[c].pc = "panicked"
Alive == ~Crashed

(***************************************************************************)
(* Buffer pool (sync.Pool of *[]byte).                                     *)
(***************************************************************************)
ZeroCells == [i \in 1..DefaultBufferSize |-> 0]

\* New of sharedBufferPool: make([]byte, DefaultBufferSize)
NewBuffer == [alloc |-> TRUE, len |-> DefaultBufferSize, data |-> ZeroCells,
              cut |-> FALSE]

FreshId == CHOOSE b \in BufIds : ~bufs[b].alloc /\ \A c \in BufIds : c < b => bufs[c].alloc

\* a Get that hands out a pooled buffer and leaves it in the pool
PoolGetKeep(b) ==
    \/ /\ b \in pool
       /\ pool' = pool
       /\ bufs' = bufs
    \/ /\ \E c \in BufIds : ~bufs[c].alloc
       /\ b = FreshId
       /\ pool' = pool
       /\ bufs' = [bufs EXCEPT ![b] = NewBuffer]

\* sync.Pool.Get: an arbitrary pooled item is removed and returned; with an
\* empty pool (or when Get chooses to ignore the pool) New makes one.
PoolGet(b) ==
    \/ /\ b \in pool
       /\ pool' = pool \ {b}
       /\ bufs' = bufs
    \/ /\ \E c \in BufIds : ~bufs[c].alloc
       /\ b = FreshId
       /\ pool' = pool
       /\ bufs' = [bufs EXCEPT ![b] = NewBuffer]

\* sync.Pool.Put
PoolPut(b) == pool' = pool \cup {b}

NoCopy == [pc |-> "none", nr |-> 0, er |-> "nil", written |-> 0, err |-> "nil",
           buf |-> 0, len |-> 0]

\* buffer := h.getBuffer(); CopyBufferWithWriteTimeout(dst, src, *buffer, ...)
\* is entered with the slice the pointer holds at that moment.
getBuffer(s, d, b) ==
    /\ PoolGet(b)
    /\ cp' = [cp EXCEPT ![s][d] = [NoCopy EXCEPT !.pc = "read", !.buf = b,
                                                 !.len = bufs'[b].len]]

\* a putBuffer that pools the slice as its holder left it
putBufferAsIs(s, d) ==
    LET b == cp[s][d].buf IN
    /\ b # 0
    /\ bufs' = bufs
    /\ PoolPut(b)
    /\ cp' = [cp EXCEPT ![s][d].buf = 0, ![s][d].pc = "returned"]

\* putBuffer: *buffer = (*buffer)[:cap(*buffer)]; h.bufferPool.Put(buffer)
putBuffer(s, d) ==
    LET b == cp[s][d].buf IN
    /\ b # 0
    /\ bufs' = [bufs EXCEPT ![b].len = DefaultBufferSize]
    /\ PoolPut(b)
    /\ cp' = [cp EXCEPT ![s][d].buf = 0, ![s][d].pc = "returned"]

(***************************************************************************)
(* CopyBufferWithWriteTimeout, one loop iteration in three steps.          *)
(***************************************************************************)
\* a loop end that reports io.EOF as the error
ReadTailEOFErr(c) ==
    IF c.er # "nil"
    THEN [c EXCEPT !.pc = "done", !.err = c.er]
    ELSE [c EXCEPT !.pc = "read"]

\* if er != nil { if er != io.EOF { err = er }; break }
ReadTail(c) ==
    IF c.er # "nil"
    THEN [c EXCEPT !.pc = "done", !.err = IF c.er # "EOF" THEN c.er ELSE @]
    ELSE [c EXCEPT !.pc = "read"]

\* nr, er := src.Read(buf); if nr > 0 { ... }
AfterRead(c, nr, er) ==
    IF nr > 0
    THEN [c EXCEPT !.pc = "deadline", !.nr = nr, !.er = er]
    ELSE ReadTail([c EXCEPT !.nr = nr, !.er = er])

\* a deadline step that goes on to the write whatever SetWriteDeadline said
AfterDeadlineIgnored(c, e) == [c EXCEPT !.err = e, !.pc = "write"]

\* err = dst.SetWriteDeadline(...); if err != nil { break }
AfterDeadline(c, e) ==
    IF e # "nil"
    THEN [c EXCEPT !.err = e, !.pc = "done"]
    ELSE [c EXCEPT !.err = e, !.pc = "write"]

\* a write step without the nr != nw check
AfterWriteNoShortCheck(c, nw0, ew0) ==
    LET bad == nw0 < 0 \/ c.nr < nw0
        nw == IF bad THEN 0 ELSE nw0
        ew == IF bad /\ ew0 = "nil" THEN "ErrInvalidWrite" ELSE ew0
        c1 == [c EXCEPT !.written = @ + nw]
    IN  IF ew # "nil" THEN [c1 EXCEPT !.err = ew, !.pc = "done"]
        ELSE IF c1.er # "nil"
             THEN [c1 EXCEPT !.pc = "done", !.err = IF c1.er # "EOF" THEN c1.er ELSE @]
             ELSE [c1 EXCEPT !.pc = "read"]

\* nw, ew := dst.Write(buf[0:nr]) and what follows it in the iteration
AfterWrite(c, nw0, ew0) ==
    LET bad == nw0 < 0 \/ c.nr < nw0
        nw == IF bad THEN 0 ELSE nw0
        ew == IF bad /\ ew0 = "nil" THEN "ErrInvalidWrite" ELSE ew0
        c1 == [c EXCEPT !.written = @ + nw]
    IN  IF ew # "nil" THEN [c1 EXCEPT !.err = ew, !.pc = "done"]
        ELSE IF c.nr # nw THEN [c1 EXCEPT !.err = "ErrShortWrite", !.pc = "done"]
        ELSE ReadTail(c1)

\* a holder of the pointer cuts the slice short: *buffer = (*buffer)[:n].  The
\* handler's own copies never do; getBuffer and putBuffer serve any holder.
Reslice(s, d, n) ==
    /\ Alive
    /\ cp[s][d].buf # 0
    /\ n < DefaultBufferSize /\ n # bufs[cp[s][d].buf].len
    /\ bufs' = [bufs EXCEPT ![cp[s][d].buf].len = n, ![cp[s][d].buf].cut = TRUE]
    /\ UNCHANGED <<srvVars, otherVars, pool, hpc, gpc, kpc, exitc, tr, cp, strm>>

(***************************************************************************)
(* The transports of a session.                                            *)
(***************************************************************************)
SrcOf(d) == IF d = "w2t" THEN "ws" ELSE "conn"
DstOf(d) == IF d = "w2t" THEN "conn" ELSE "ws"

TotalSent(s) == Len(strm[s]["w2t"].sent) + Len(strm[s]["t2w"].sent)

\* the remote end of transport SrcOf(d) sends one byte
PeerSend(s, d) ==
    /\ hpc[s] \notin {"none", "done"}
    /\ d = "t2w" => hpc[s] \in {"get", "copy"}
    /\ ~tr[s][SrcOf(d)].closed /\ ~tr[s][SrcOf(d)].peer
    /\ TotalSent(s) < MaxBytes
    /\ strm' = [strm EXCEPT ![s][d].sent = Append(@, Payload(d, Len(@) + 1))]
    /\ UNCHANGED <<srvVars, otherVars, pool, bufs, hpc, gpc, kpc, exitc, tr, cp>>

\* the remote end of transport t closes it (or dies)
PeerClose(s, t) ==
    /\ hpc[s] \notin {"none", "done"}
    /\ t = "conn" => hpc[s] \in {"get", "copy"}
    /\ ~tr[s][t].peer
    /\ tr' = [tr EXCEPT ![s][t].peer = TRUE]
    /\ UNCHANGED <<srvVars, otherVars, pool, bufs, hpc, gpc, kpc, exitc, cp, strm>>

\* src.Read(buf) of direction d
CopyRead(s, d) ==
    /\ Alive
    /\ cp[s][d].pc = "read"
    /\ LET src == tr[s][SrcOf(d)]
           st == strm[s][d]
           avail == Len(st.sent) - st.nread
           b == cp[s][d].buf
       IN  \/ /\ src.closed
              /\ cp' = [cp EXCEPT ![s][d] = AfterRead(@, 0, "ErrClosed")]
              /\ UNCHANGED <<strm, bufs>>
           \/ /\ ~src.closed /\ avail > 0
              /\ \E nr \in 1..Min(avail, cp[s][d].len) :
                    /\ bufs' = [bufs EXCEPT ![b].data =
                                  [i \in 1..DefaultBufferSize |->
                                      IF i <= nr THEN st.sent[st.nread + i] ELSE @[i]]]
                    /\ strm' = [strm EXCEPT ![s][d].nread = @ + nr]
                    /\ cp' = [cp EXCEPT ![s][d] = AfterRead(@, nr, "nil")]
           \/ /\ ~src.closed /\ avail = 0 /\ src.peer
              /\ cp' = [cp EXCEPT ![s][d] = AfterRead(@, 0, "EOF")]
              /\ UNCHANGED <<strm, bufs>>
    /\ UNCHANGED <<srvVars, otherVars, pool, hpc, gpc, kpc, exitc, tr>>

\* dst.SetWriteDeadline(time.Now().Add(timeout))
CopyDeadline(s, d) ==
    /\ Alive
    /\ cp[s][d].pc = "deadline"
    /\ cp' = [cp EXCEPT ![s][d] =
                AfterDeadline(@, IF tr[s][DstOf(d)].closed THEN "ErrClosed" ELSE "nil")]
    /\ UNCHANGED <<srvVars, otherVars, pool, bufs, hpc, gpc, kpc, exitc, tr, strm>>

\* the last nr bytes of the buffer instead of the first
WriteSliceTail(cells, nr) == SubSeq(cells, Len(cells) - nr + 1, Len(cells))

\* buf[0:nr]
WriteSlice(cells, nr) == SubSeq(cells, 1, nr)

\* dst.Write(buf[0:nr]): the sink takes the first nw bytes of the slice
CopyWrite(s, d) ==
    /\ Alive
    /\ cp[s][d].pc = "write"
    /\ LET dst == tr[s][DstOf(d)]
           c == cp[s][d]
           cells == WriteSlice(bufs[c.buf].data, c.nr)
       IN  \E nw \in 0..c.nr, ew \in {"nil", "ErrClosed", "EPIPE", "ErrTimeout"} :
              /\ dst.closed => nw = 0 /\ ew = "ErrClosed"
              /\ ~dst.closed /\ dst.peer => nw = 0 /\ ew = "EPIPE"
              /\ ~dst.closed /\ ~dst.peer =>
                    \/ nw = c.nr /\ ew = "nil"
                    \/ nw < c.nr /\ ew = "ErrTimeout"
              /\ strm' = [strm EXCEPT ![s][d].wr = @ \o SubSeq(cells, 1, nw)]
              /\ cp' = [cp EXCEPT ![s][d] = AfterWrite(@, nw, ew)]
    /\ UNCHANGED <<srvVars, otherVars, pool, bufs, hpc, gpc, kpc, exitc, tr>>

(***************************************************************************)
(* Handler.handleWebSocket / Handler.handleNetwork.                        *)
(***************************************************************************)
\* handleWebSocket up to the call of handleNetwork: the keepalive goroutine runs
handleWebSocket(s) ==
    /\ Alive
    /\ hpc[s] = "none"
    /\ hpc' = [hpc EXCEPT ![s] = "dial"]
    /\ kpc' = [kpc EXCEPT ![s] = "run"]
    /\ UNCHANGED <<srvVars, otherVars, pool, bufs, gpc, exitc, tr, cp, strm>>

\* a dial whose failure ends the handler without running its deferred calls
DialNoDefer(s) ==
    /\ Alive
    /\ hpc[s] = "dial"
    /\ \/ /\ hpc' = [hpc EXCEPT ![s] = "get"]
          /\ gpc' = [gpc EXCEPT ![s] = "get"]
       \/ /\ hpc' = [hpc EXCEPT ![s] = "done"]
          /\ gpc' = gpc
    /\ UNCHANGED <<srvVars, otherVars, pool, bufs, kpc, exitc, tr, cp, strm>>

\* conn, err := dial(...); if err != nil { return }; defer conn.Close(); go func...
Dial(s) ==
    /\ Alive
    /\ hpc[s] = "dial"
    /\ \/ /\ hpc' = [hpc EXCEPT ![s] = "get"]
          /\ gpc' = [gpc EXCEPT ![s] = "get"]
       \/ /\ hpc' = [hpc EXCEPT ![s] = "closeexit"]
          /\ gpc' = gpc
    /\ UNCHANGED <<srvVars, otherVars, pool, bufs, kpc, exitc, tr, cp, strm>>

\* buffer := h.getBuffer() of the caller, then the TCP -> WebSocket copy starts
MainGet(s) ==
    /\ Alive
    /\ hpc[s] = "get"
    /\ \E b \in BufIds : getBuffer(s, "t2w", b)
    /\ hpc' = [hpc EXCEPT ![s] = "copy"]
    /\ UNCHANGED <<srvVars, otherVars, gpc, kpc, exitc, tr, strm>>

\* the copy returned: defer h.putBuffer(buffer)
MainPut(s) ==
    /\ Alive
    /\ hpc[s] = "copy" /\ cp[s]["t2w"].pc = "done"
    /\ putBuffer(s, "t2w")
    /\ hpc' = [hpc EXCEPT ![s] = "closeconn"]
    /\ UNCHANGED <<srvVars, otherVars, gpc, kpc, exitc, tr, strm>>

\* defer conn.Close()
CloseConn(s) ==
    /\ Alive
    /\ hpc[s] = "closeconn"
    /\ tr' = [tr EXCEPT ![s]["conn"].closed = TRUE]
    /\ hpc' = [hpc EXCEPT ![s] = "closeexit"]
    /\ UNCHANGED <<srvVars, otherVars, pool, bufs, gpc, kpc, exitc, cp, strm>>

\* defer close(exit)
CloseExit(s) ==
    /\ Alive
    /\ hpc[s] = "closeexit"
    /\ exitc' = [exitc EXCEPT ![s] = TRUE]
    /\ hpc' = [hpc EXCEPT ![s] = "closews"]
    /\ UNCHANGED <<srvVars, otherVars, pool, bufs, gpc, kpc, tr, cp, strm>>

\* defer ws.Close()
CloseWs(s) ==
    /\ Alive
    /\ hpc[s] = "closews"
    /\ tr' = [tr EXCEPT ![s]["ws"].closed = TRUE]
    /\ hpc' = [hpc EXCEPT ![s] = "done"]
    /\ UNCHANGED <<srvVars, otherVars, pool, bufs, gpc, kpc, exitc, cp, strm>>

\* the goroutine: buffer := h.getBuffer(), then the WebSocket -> TCP copy starts
GoGet(s) ==
    /\ Alive
    /\ gpc[s] = "get"
    /\ \E b \in BufIds : getBuffer(s, "w2t", b)
    /\ gpc' = [gpc EXCEPT ![s] = "copy"]
    /\ UNCHANGED <<srvVars, otherVars, hpc, kpc, exitc, tr, strm>>

\* a goroutine that returns without its deferred putBuffer
GoPutSkip(s) ==
    /\ Alive
    /\ gpc[s] = "copy" /\ cp[s]["w2t"].pc = "done"
    /\ gpc' = [gpc EXCEPT ![s] = "done"]
    /\ UNCHANGED <<srvVars, otherVars, pool, bufs, cp, hpc, kpc, exitc, tr, strm>>

\* the goroutine: the copy returned, defer h.putBuffer(buffer)
GoPut(s) ==
    /\ Alive
    /\ gpc[s] = "copy" /\ cp[s]["w2t"].pc = "done"
    /\ putBuffer(s, "w2t")
    /\ gpc' = [gpc EXCEPT ![s] = "done"]
    /\ UNCHANGED <<srvVars, otherVars, hpc, kpc, exitc, tr, strm>>

\* a keepalive that returns on a failed ping and leaves the WebSocket open
KeepaliveTickNoClose(s) ==
    /\ Alive
    /\ kpc[s] = "run"
    /\ IF ~tr[s]["ws"].closed /\ ~tr[s]["ws"].peer
       THEN UNCHANGED <<kpc, tr>>
       ELSE /\ kpc' = [kpc EXCEPT ![s] = "done"]
            /\ tr' = tr
    /\ UNCHANGED <<srvVars, otherVars, pool, bufs, hpc, gpc, exitc, cp, strm>>

\* keepalive: case <-ticker.C: codec.Send(ws, nil); on error ws.Close(), return
KeepaliveTick(s) ==
    /\ Alive
    /\ kpc[s] = "run"
    /\ IF ~tr[s]["ws"].closed /\ ~tr[s]["ws"].peer
       THEN UNCHANGED <<kpc, tr>>
       ELSE /\ kpc' = [kpc EXCEPT ![s] = "done"]
            /\ tr' = [tr EXCEPT ![s]["ws"].closed = TRUE]
    /\ UNCHANGED <<srvVars, otherVars, pool, bufs, hpc, gpc, exitc, cp, strm>>

\* keepalive: case <-exit: return
KeepaliveExit(s) ==
    /\ Alive
    /\ kpc[s] = "run" /\ exitc[s]
    /\ kpc' = [kpc EXCEPT ![s] = "done"]
    /\ UNCHANGED <<srvVars, otherVars, pool, bufs, hpc, gpc, exitc, tr, cp, strm>>

InitSession ==
    /\ pool = {}
    /\ bufs = [b \in BufIds |-> [alloc |-> FALSE, len |-> DefaultBufferSize,
                                 data |-> ZeroCells, cut |-> FALSE]]
    /\ hpc = [s \in Sessions |-> "none"]
    /\ gpc = [s \in Sessions |-> "none"]
    /\ kpc = [s \in Sessions |-> "none"]
    /\ exitc = [s \in Sessions |-> FALSE]
    /\ tr = [s \in Sessions |-> [t \in {"ws", "conn"} |-> [closed |-> FALSE, peer |-> FALSE]]]
    /\ cp = [s \in Sessions |-> [d \in Dirs |-> NoCopy]]
    /\ strm = [s \in Sessions |-> [d \in Dirs |-> [sent |-> <<>>, nread |-> 0, wr |-> <<>>]]]

\* the three tasks of session s: the handler's goroutine (which runs the
\* TCP -> WebSocket copy itself), the goroutine of handleNetwork, the keepalive
HandlerTask(s) ==
    \/ Dial(s) \/ MainGet(s) \/ MainPut(s) \/ CloseConn(s) \/ CloseExit(s) \/ CloseWs(s)
    \/ CopyRead(s, "t2w") \/ CopyDeadline(s, "t2w") \/ CopyWrite(s, "t2w")

GoTask(s) ==
    \/ GoGet(s) \/ GoPut(s)
    \/ CopyRead(s, "w2t") \/ CopyDeadline(s, "w2t") \/ CopyWrite(s, "w2t")

KeepaliveTask(s) == KeepaliveTick(s) \/ KeepaliveExit(s)

TaskStep(s) == HandlerTask(s) \/ GoTask(s) \/ KeepaliveTask(s)

\* the steps of the peers of session s
PeerStep(s) ==
    \/ \E d \in Dirs : PeerSend(s, d)
    \/ \E t \in {"ws", "conn"} : PeerClose(s, t)

(***************************************************************************)
(* Server: Serve / listenAndServe / Shutdown / Close.                      *)
(***************************************************************************)
NoCall == [op |-> "none", pc |-> "idle", ret |-> "nil", ln |-> FALSE,
           bindFailed |-> FALSE, expired |-> FALSE, inflight |-> {}]

\* the tunnel sessions that are mid-transfer: upgraded, the target dialled,
\* the handler in its copy
InFlight == {s \in Sessions : httpc[s] = "hijacked" /\ hpc[s] = "copy"}

\* closeOnListened: ps.onListenCloseOnce.Do(func() { close(ps.onListened) })
closeOnListened(sv) ==
    IF sv.once THEN sv ELSE [sv EXCEPT !.once = TRUE, !.onListened = TRUE]

\* a caller enters Serve, Shutdown(ctx) or Close
CallBegin(c, op) ==
    /\ Alive
    /\ call[c].pc \in {"idle", "done"}
    /\ ncalls < MaxCalls
    /\ ncalls' = ncalls + 1
    /\ call' = [call EXCEPT ![c] =
                  [NoCall EXCEPT !.op = op,
                                 !.pc = IF op = "Serve" THEN "server" ELSE "signal",
                                 !.inflight = InFlight]]
    /\ UNCHANGED <<srv, httpc, sessVars, otherVars>>

\* Serve: server := ps.Server()
ServeServer(c) ==
    /\ Alive
    /\ call[c].pc = "server"
    /\ srv' = [srv EXCEPT !.server = TRUE]
    /\ call' = [call EXCEPT ![c].pc = "listen"]
    /\ UNCHANGED <<ncalls, httpc, sessVars, otherVars>>

\* listenAndServe: ln, err := net.Listen("tcp", addr) fails:
\* ps.listenErr = err; return err
listenFailed(c) ==
    /\ srv' = [srv EXCEPT !.listenErr = "EADDRINUSE"]
    /\ call' = [call EXCEPT ![c].ret = "EADDRINUSE", ![c].bindFailed = TRUE,
                            ![c].pc = "deferShutdowned"]

\* listenAndServe: net.Listen; the address is taken while a listener holds it
Listen(c) ==
    /\ Alive
    /\ call[c].pc = "listen"
    /\ \/ listenFailed(c)
       \/ /\ ~srv.bound
          /\ srv' = [srv EXCEPT !.bound = TRUE]
          /\ call' = [call EXCEPT ![c].ln = TRUE, ![c].pc = "listened"]
    /\ UNCHANGED <<ncalls, httpc, sessVars, otherVars>>

\* listenAndServe: ps.closeOnListened() after the bind
ServeListened(c) ==
    /\ Alive
    /\ call[c].pc = "listened"
    /\ srv' = closeOnListened(srv)
    /\ call' = [call EXCEPT ![c].pc = "serve"]
    /\ UNCHANGED <<ncalls, httpc, sessVars, otherVars>>

\* server.Serve(ln): ErrServerClosed at once when the server is shutting down,
\* else the accept loop is entered
ServeEnter(c) ==
    /\ Alive
    /\ call[c].pc = "serve"
    /\ IF srv.inShutdown
       THEN call' = [call EXCEPT ![c].ret = "ErrServerClosed", ![c].pc = "deferLnClose"]
       ELSE call' = [call EXCEPT ![c].pc = "accept"]
    /\ UNCHANGED <<srv, ncalls, httpc, sessVars, otherVars>>

\* server.Serve(ln) returns: Shutdown closed the listener, or Accept failed
ServeReturn(c) ==
    /\ Alive
    /\ call[c].pc = "accept"
    /\ \/ /\ srv.inShutdown
          /\ call' = [call EXCEPT ![c].ret = "ErrServerClosed", ![c].pc = "deferLnClose"]
       \/ /\ ~srv.inShutdown
          /\ call' = [call EXCEPT ![c].ret = "ErrAccept", ![c].pc = "deferLnClose"]
    /\ UNCHANGED <<srv, ncalls, httpc, sessVars, otherVars>>

\* listenAndServe: defer ln.Close()
ServeLnClose(c) ==
    /\ Alive
    /\ call[c].pc = "deferLnClose"
    /\ srv' = [srv EXCEPT !.bound = IF call[c].ln THEN FALSE ELSE @]
    /\ call' = [call EXCEPT ![c].ln = FALSE, ![c].pc = "deferShutdowned"]
    /\ UNCHANGED <<ncalls, httpc, sessVars, otherVars>>

\* Serve: defer close(ps.shutdowned); closing a closed channel panics
closeShutdowned(c) ==
    IF srv.shutdowned
    THEN /\ call' = [call EXCEPT ![c].pc = "deferOnListened",
                                 ![c].ret = "panic: close of closed channel"]
         /\ srv' = srv
    ELSE /\ call' = [call EXCEPT ![c].pc = "deferOnListened"]
         /\ srv' = [srv EXCEPT !.shutdowned = TRUE]

ServeDeferShutdowned(c) ==
    /\ Alive
    /\ call[c].pc = "deferShutdowned"
    /\ closeShutdowned(c)
    /\ UNCHANGED <<ncalls, httpc, sessVars, otherVars>>

\* Serve: defer ps.closeOnListened() (it runs while panicking too), then Serve
\* returns or the panic goes on
ServeDeferOnListened(c) ==
    /\ Alive
    /\ call[c].pc = "deferOnListened"
    /\ srv' = closeOnListened(srv)
    /\ call' = [call EXCEPT ![c].pc = IF call[c].ret = "panic: close of closed channel"
                                       THEN "panicked" ELSE "done"]
    /\ UNCHANGED <<ncalls, httpc, sessVars, otherVars>>

\* Shutdown: ps.closeOnListened()
ShutdownSignal(c) ==
    /\ Alive
    /\ call[c].pc = "signal"
    /\ srv' = closeOnListened(srv)
    /\ call' = [call EXCEPT ![c].pc = "shutdown"]
    /\ UNCHANGED <<ncalls, httpc, sessVars, otherVars>>

\* Shutdown: ps.server.Shutdown(ctx) begins: a nil ps.server is dereferenced;
\* else the server is marked as shutting down and its listeners are closed
ShutdownBegin(c) ==
    /\ Alive
    /\ call[c].pc = "shutdown"
    /\ IF ~srv.server
       THEN /\ call' = [call EXCEPT ![c].pc = "panicked",
                                    ![c].ret = "panic: nil pointer dereference"]
            /\ srv' = srv
       ELSE /\ call' = [call EXCEPT ![c].pc = "wait"]
            /\ srv' = [srv EXCEPT !.inShutdown = TRUE,
                                  !.bound = IF \E k \in Callers : call[k].pc = "accept"
                                            THEN FALSE ELSE @]
    /\ UNCHANGED <<ncalls, httpc, sessVars, otherVars>>

\* the connections http.Server.Shutdown waits for: those it tracks.  A hijacked
\* connection (every upgraded WebSocket) is no longer tracked by the server.
Tracked == {s \in Sessions : httpc[s] = "active"}

\* http.Server.Shutdown returns nil once no tracked connection is left, and
\* ctx.Err() once ctx is done
shutdownReturns(c) ==
    \/ /\ Tracked = {}
       /\ call' = [call EXCEPT ![c].pc = "done", ![c].ret = "nil"]
    \/ /\ Tracked # {} /\ call[c].expired
       /\ call' = [call EXCEPT ![c].pc = "done", ![c].ret = "ErrCtx"]

ShutdownReturn(c) ==
    /\ Alive
    /\ call[c].pc = "wait"
    /\ shutdownReturns(c)
    /\ UNCHANGED <<srv, ncalls, httpc, sessVars, otherVars>>

\* the deadline of ctx passes (3 seconds after the call, for Close)
CtxExpire(c) ==
    /\ Alive
    /\ call[c].op \in {"Shutdown", "Close"} /\ call[c].pc \in {"signal", "shutdown", "wait"}
    /\ ~call[c].expired
    /\ call' = [call EXCEPT ![c].expired = TRUE]
    /\ UNCHANGED <<srv, ncalls, httpc, sessVars, otherVars>>

\* the accept loop of server.Serve takes a connection: the server tracks it
Accept(s) ==
    /\ Alive
    /\ httpc[s] = "none"
    /\ \E c \in Callers : call[c].pc = "accept"
    /\ srv.bound /\ ~srv.inShutdown
    /\ httpc' = [httpc EXCEPT ![s] = "active"]
    /\ UNCHANGED <<srv, call, ncalls, sessVars, otherVars>>

\* Handler.ServeHTTP: h.wsServer.ServeHTTP hijacks the connection and calls
\* h.handleWebSocket on it
ServeHTTP(s) ==
    /\ Alive
    /\ httpc[s] = "active"
    /\ httpc' = [httpc EXCEPT ![s] = "hijacked"]
    /\ hpc[s] = "none"
    /\ hpc' = [hpc EXCEPT ![s] = "dial"]
    /\ kpc' = [kpc EXCEPT ![s] = "run"]
    /\ UNCHANGED <<otherVars, srv, call, ncalls, pool, bufs, gpc, exitc, tr, cp, strm>>

InitServer ==
    /\ srv = [server |-> FALSE, inShutdown |-> FALSE, listenErr |-> "nil",
              onListened |-> FALSE, once |-> FALSE, shutdowned |-> FALSE,
              bound |-> FALSE]
    /\ call = [c \in Callers |-> NoCall]
    /\ ncalls = 0
    /\ httpc = [s \in Sessions |-> "none"]

ServerStep(c) ==
    \/ ServeServer(c) \/ Listen(c) \/ ServeListened(c) \/ ServeEnter(c) \/ ServeReturn(c)
    \/ ServeLnClose(c) \/ ServeDeferShutdowned(c) \/ ServeDeferOnListened(c)
    \/ ShutdownSignal(c) \/ ShutdownBegin(c) \/ ShutdownReturn(c) \/ CtxExpire(c)

(***************************************************************************)
(* CopyBufferWithWriteTimeout over an arbitrary io.Reader and an arbitrary *)
(* deadlineWriter: every result the interfaces allow, and the writes that  *)
(* break the io.Writer contract.                                           *)
(***************************************************************************)
ReadErrs == {"nil", "EOF", "ErrRead"}

GenRead ==
    /\ cpy.pc = "read"
    /\ Cardinality({i \in 1..Len(ops) : ops[i].op = "read"}) < MaxReads
    /\ \E nr \in 0..cpy.len, er \in ReadErrs :
          /\ cpy' = AfterRead(cpy, nr, er)
          /\ ops' = Append(ops, [op |-> "read", req |-> cpy.len, n |-> nr, e |-> er])
    /\ UNCHANGED <<sessVars, srvVars, parseVars, clientVars, connVars>>

GenDeadline ==
    /\ cpy.pc = "deadline"
    /\ \E e \in {"nil", "ErrDeadline"} :
          /\ cpy' = AfterDeadline(cpy, e)
          /\ ops' = Append(ops, [op |-> "deadline", req |-> 0, n |-> 0, e |-> e])
    /\ UNCHANGED <<sessVars, srvVars, parseVars, clientVars, connVars>>

GenWrite ==
    /\ cpy.pc = "write"
    /\ \E nw \in (-1)..(cpy.nr + 1), ew \in {"nil", "ErrWrite"} :
          /\ cpy' = AfterWrite(cpy, nw, ew)
          /\ ops' = Append(ops, [op |-> "write", req |-> cpy.nr, n |-> nw, e |-> ew])
    /\ UNCHANGED <<sessVars, srvVars, parseVars, clientVars, connVars>>

InitCopy ==
    /\ cpy = [NoCopy EXCEPT !.pc = "read", !.len = DefaultBufferSize]
    /\ ops = <<>>

(***************************************************************************)
(* Client: parseAddrAndPort over net.SplitHostPort.  A string is the       *)
(* sequence of its characters.                                             *)
(***************************************************************************)
AddrChars == {"h", ":", "9", "[", "]"}
SeqsUpTo(S, n) == UNION {[1..k -> S] : k \in 0..n}

Has(str, ch) == \E i \in 1..Len(str) : str[i] = ch
LastIndex(str, ch) ==
    IF Has(str, ch) THEN CHOOSE i \in 1..Len(str) :
                              str[i] = ch /\ \A j \in (i + 1)..Len(str) : str[j] # ch
    ELSE 0
FirstIndex(str, ch) ==
    IF Has(str, ch) THEN CHOOSE i \in 1..Len(str) :
                              str[i] = ch /\ \A j \in 1..(i - 1) : str[j] # ch
    ELSE 0
From(str, i) == SubSeq(str, i, Len(str))

\* a nil error of net.SplitHostPort
NoAddrError == [Err |-> "", Addr |-> <<>>]

\* return "", "", &net.AddrError{Err: why, Addr: addr}
AddrError(addr, why) == [host |-> <<>>, port |-> <<>>, err |-> [Err |-> why, Addr |-> addr]]

\* net.SplitHostPort
SplitHostPort(hostport) ==
    LET i == LastIndex(hostport, ":")
        end == FirstIndex(hostport, "]")
        bracket == hostport[1] = "["
        host == IF bracket THEN SubSeq(hostport, 2, end - 1) ELSE SubSeq(hostport, 1, i - 1)
        j == IF bracket THEN 2 ELSE 1
        k == IF bracket THEN end + 1 ELSE 1
    IN  IF i = 0 THEN AddrError(hostport, "missing port in address")
        ELSE IF bracket /\ end = 0 THEN AddrError(hostport, "missing ']' in address")
        ELSE IF bracket /\ end = Len(hostport)
             THEN AddrError(hostport, "missing port in address")
        ELSE IF bracket /\ end + 1 # i
             THEN IF hostport[end + 1] = ":"
                  THEN AddrError(hostport, "too many colons in address")
                  ELSE AddrError(hostport, "missing port in address")
        ELSE IF ~bracket /\ Has(host, ":")
             THEN AddrError(hostport, "too many colons in address")
        ELSE IF Has(From(hostport, j), "[")
             THEN AddrError(hostport, "unexpected '[' in address")
        ELSE IF Has(From(hostport, k), "]")
             THEN AddrError(hostport, "unexpected ']' in address")
        ELSE [host |-> host, port |-> From(hostport, i + 1), err |-> NoAddrError]

\* (*net.AddrError).Error(): "address " + e.Addr + ": " + e.Err, or e.Err alone
\* when e.Addr is empty; the text as the sequence of its pieces
ErrorString(e) ==
    IF e.Addr # <<>> THEN <<"address ">> \o e.Addr \o <<": ", e.Err>> ELSE <<e.Err>>

\* defaultPort
defaultPort(tlsEnabled) == IF tlsEnabled THEN <<"4", "4", "3">> ELSE <<"8", "0">>

\* parseAddrAndPort: err is "nil" or the text that wraps the cause
parseAddrAndPort(addr, tlsEnabled) ==
    LET r == SplitHostPort(addr) IN
    IF r.err # NoAddrError
    THEN IF ErrorString(r.err) = <<"missing port in address">>
         THEN [addr |-> addr, port |-> defaultPort(tlsEnabled), err |-> "nil",
               cause |-> NoAddrError]
         ELSE [addr |-> <<>>, port |-> <<>>, err |-> "failed to split host and port",
               cause |-> r.err]
    ELSE [addr |-> r.host, port |-> r.port, err |-> "nil", cause |-> NoAddrError]

NoParse == [called |-> FALSE, addr |-> <<>>, port |-> <<>>, err |-> "nil",
            cause |-> NoAddrError]

\* a call of parseAddrAndPort
Parse ==
    /\ ~pres.called
    /\ LET r == parseAddrAndPort(paddr, ptls) IN
          pres' = [called |-> TRUE, addr |-> r.addr, port |-> r.port, err |-> r.err,
                   cause |-> r.cause]
    /\ UNCHANGED <<paddr, ptls, sessVars, srvVars, copyVars, clientVars, connVars>>

InitParse ==
    /\ paddr = <<>>
    /\ ptls = FALSE
    /\ pres = NoParse

InitParseInputs ==
    /\ paddr \in SeqsUpTo(AddrChars, MaxAddrLen)
    /\ ptls \in BOOLEAN
    /\ pres = NoParse

(***************************************************************************)
(* Client: ConnectConfig, the options, generateDialConfig, Dialer.         *)
(***************************************************************************)
\* ConnectConfig{}: ConnectAddrConfig and ConnectDialConfig, zero valued
ZeroConfig == [Addr |-> <<>>, Host |-> <<>>, Path |-> <<>>, ServerName |-> <<>>,
               TLS |-> FALSE, Insecure |-> FALSE, Dialer |-> "nil"]

\* the option values the callers choose from
Options ==
    {[f |-> "WithAddr", addr |-> <<"h", ":", "9">>],
     [f |-> "WithHost", host |-> <<"x">>],
     [f |-> "WithPath", path |-> <<"w">>],
     [f |-> "WithDialTLS", serverName |-> <<"s">>, insecure |-> TRUE],
     [f |-> "WithDialer", dialer |-> "d1"],
     [f |-> "WithURL", scheme |-> "wss", host |-> <<"h">>, path |-> <<"/", "w">>],
     [f |-> "WithURL", scheme |-> "ws", host |-> <<"h">>, path |-> <<>>]}

\* WithURL, WithAddr, WithHost, WithPath, WithDialTLS, WithDialer applied to *c
ApplyOption(o, c) ==
    CASE o.f = "WithURL" ->
            IF o.scheme = "wss"
            THEN [c EXCEPT !.Addr = o.host, !.Path = o.path, !.TLS = TRUE,
                           !.ServerName = o.host]
            ELSE [c EXCEPT !.Addr = o.host, !.Path = o.path, !.TLS = FALSE]
      [] o.f = "WithAddr" -> [c EXCEPT !.Addr = o.addr]
      [] o.f = "WithHost" -> [c EXCEPT !.Host = o.host]
      [] o.f = "WithPath" -> [c EXCEPT !.Path = o.path]
      [] o.f = "WithDialTLS" ->
            [c EXCEPT !.TLS = TRUE, !.ServerName = o.serverName, !.Insecure = o.insecure]
      [] o.f = "WithDialer" -> [c EXCEPT !.Dialer = o.dialer]

\* a normalisation that prepends "/" to every path
ensureLeadingSlashAlways(path) == <<"/">> \o path

\* ensureLeadingSlash
ensureLeadingSlash(path) ==
    IF Len(path) = 0 \/ path[1] # "/" THEN <<"/">> \o path ELSE path

\* a generation that takes an unset server name from the address, not the host
generateDialConfigAddrName(addr, cfg) ==
    LET c1 == IF cfg.Dialer = "nil" THEN [cfg EXCEPT !.Dialer = "defaultDialer"] ELSE cfg
        r == parseAddrAndPort(addr, c1.TLS)
        c2 == IF c1.Host = <<>>
              THEN [c1 EXCEPT !.Host = IF c1.ServerName # <<>> THEN c1.ServerName ELSE r.addr]
              ELSE c1
        c3 == IF c1.ServerName = <<>> THEN [c2 EXCEPT !.ServerName = r.addr] ELSE c2
        c4 == [c3 EXCEPT !.Path = ensureLeadingSlash(@)]
    IN  IF r.err # "nil"
        THEN [err |-> r.err, cause |-> r.cause, splitAddr |-> <<>>, splitPort |-> <<>>,
              cfg |-> ZeroConfig]
        ELSE [err |-> "nil", cause |-> NoAddrError, splitAddr |-> r.addr,
              splitPort |-> r.port, cfg |-> c4]

\* generateDialConfig(addr, cfg): cfg is the callee's own copy
generateDialConfig(addr, cfg) ==
    LET c1 == IF cfg.Dialer = "nil" THEN [cfg EXCEPT !.Dialer = "defaultDialer"] ELSE cfg
        r == parseAddrAndPort(addr, c1.TLS)
        c2 == IF c1.Host = <<>>
              THEN [c1 EXCEPT !.Host = IF c1.ServerName # <<>> THEN c1.ServerName ELSE r.addr]
              ELSE c1
        c3 == IF c2.ServerName = <<>> THEN [c2 EXCEPT !.ServerName = c2.Host] ELSE c2
        c4 == [c3 EXCEPT !.Path = ensureLeadingSlash(@)]
    IN  IF r.err # "nil"
        THEN [err |-> r.err, cause |-> r.cause, splitAddr |-> <<>>, splitPort |-> <<>>,
              cfg |-> ZeroConfig]
        ELSE [err |-> "nil", cause |-> NoAddrError, splitAddr |-> r.addr,
              splitPort |-> r.port, cfg |-> c4]

DialCalls == {1, 2}

\* a Clone that returns the receiver itself
CloneAlias(k, c) == [ptr |-> 0, val |-> c]

\* ConnectConfig.Clone for call k: a new struct holding a copy of *c
Clone(k, c) == [ptr |-> k, val |-> [c EXCEPT !.Addr = c.Addr]]

NoDial == [pc |-> "idle", ptr |-> 0, nopts |-> 0, want |-> ZeroConfig,
           eff |-> ZeroConfig,
           res |-> [err |-> "none", cause |-> NoAddrError, splitAddr |-> <<>>,
                    splitPort |-> <<>>, cfg |-> ZeroConfig]]

\* NewDialer: option(&wc.config) for one of its options
NewDialerOption(o) ==
    /\ dphase.st = "new" /\ dphase.nopts < MaxOpts
    /\ heap' = [heap EXCEPT ![0] = ApplyOption(o, @)]
    /\ dphase' = [dphase EXCEPT !.nopts = @ + 1]
    /\ UNCHANGED <<base0, dcall, sessVars, srvVars, copyVars, parseVars, connVars>>

\* NewDialer returns the Dialer
NewDialerReturn ==
    /\ dphase.st = "new"
    /\ dphase' = [dphase EXCEPT !.st = "ready"]
    /\ base0' = heap[0]
    /\ UNCHANGED <<heap, dcall, sessVars, srvVars, copyVars, parseVars, connVars>>

\* DialContext: cfg := wc.config.Clone()
DialClone(k) ==
    /\ dphase.st = "ready" /\ dcall[k].pc = "idle"
    /\ LET cl == Clone(k, heap[0]) IN
          /\ heap' = [heap EXCEPT ![cl.ptr] = cl.val]
          /\ dcall' = [dcall EXCEPT ![k].pc = "options", ![k].ptr = cl.ptr,
                                    ![k].want = base0]
    /\ UNCHANGED <<dphase, base0, sessVars, srvVars, copyVars, parseVars, connVars>>

\* DialContext: option(cfg) for the next of the call's options
DialOption(k, o) ==
    /\ dcall[k].pc = "options" /\ dcall[k].nopts < MaxOpts
    /\ heap' = [heap EXCEPT ![dcall[k].ptr] = ApplyOption(o, @)]
    /\ dcall' = [dcall EXCEPT ![k].nopts = @ + 1, ![k].want = ApplyOption(o, @)]
    /\ UNCHANGED <<dphase, base0, sessVars, srvVars, copyVars, parseVars, connVars>>

\* DialContext: ConnectWithConfig(ctx, *cfg), up to generateDialConfig
DialConnect(k) ==
    /\ dcall[k].pc = "options"
    /\ LET cfg == heap[dcall[k].ptr] IN
          dcall' = [dcall EXCEPT ![k].pc = "done", ![k].eff = cfg,
                                 ![k].res = generateDialConfig(cfg.Addr, cfg)]
    /\ UNCHANGED <<heap, dphase, base0, sessVars, srvVars, copyVars, parseVars, connVars>>

InitClient ==
    /\ heap = [p \in {0} \cup DialCalls |-> ZeroConfig]
    /\ dphase = [st |-> "new", nopts |-> 0]
    /\ base0 = ZeroConfig
    /\ dcall = [k \in DialCalls |-> NoDial]

(***************************************************************************)
(* Client: ConnectWithConfig / connect.                                    *)
(***************************************************************************)
\* a call of ConnectWithConfig(ctx, cfg) that has not made a step
NoConnect(cfg) == [pc |-> "generate", cfg |-> cfg, log |-> <<>>, conn |-> "none",
                   ret |-> "none", err |-> "nil"]

\* a step of the call is made and succeeds
StepOk(c, step, next) ==
    [c EXCEPT !.log = Append(@, [step |-> step, err |-> "nil"]), !.pc = next]

\* a step of the call is made and fails before any connection exists:
\* return nil, err
StepFailed(c, step, e) ==
    [c EXCEPT !.log = Append(@, [step |-> step, err |-> e]), !.pc = "done",
              !.ret = "nil", !.err = e]

\* a failed step that returns the error and leaves the dialed connection open
StepFailedLeak(c, step, e) == StepFailed(c, step, e)

\* a step fails after the dial: dialConn.Close(); return nil, err
StepFailedClose(c, step, e) == [StepFailed(c, step, e) EXCEPT !.conn = "closed"]

\* ConnectWithConfig: dialCfg, err := generateDialConfig(cfg.Addr, cfg.ConnectDialConfig)
ConnectWithConfig ==
    /\ cn.pc = "generate"
    /\ LET r == generateDialConfig(cn.cfg.Addr, cn.cfg) IN
          cn' = IF r.err # "nil"
                THEN StepFailed(cn, "generateDialConfig", r.err)
                ELSE StepOk([cn EXCEPT !.cfg = r.cfg], "generateDialConfig", "wsconfig")
    /\ UNCHANGED <<sessVars, srvVars, copyVars, parseVars, clientVars>>

\* connect: wsConfig, err := createWebsocketConfig(cfg.ConnectDialConfig);
\* websocket.NewConfig may reject the URL made of host and path
createWebsocketConfig ==
    /\ cn.pc = "wsconfig"
    /\ \/ cn' = StepOk(cn, "createWebsocketConfig", "dial")
       \/ cn' = StepFailed(cn, "createWebsocketConfig", "failed to create websocket config")
    /\ UNCHANGED <<sessVars, srvVars, copyVars, parseVars, clientVars>>

\* connect: dialConn, err := dialWithTimeout(ctx, cfg.Dialer, splitAddr, splitPort)
dialWithTimeout ==
    /\ cn.pc = "dial"
    /\ \/ cn' = [StepOk(cn, "dialWithTimeout", IF cn.cfg.TLS THEN "tls" ELSE "handshake")
                    EXCEPT !.conn = "open"]
       \/ \E e \in {"ErrTimeout", "ECONNREFUSED"} : cn' = StepFailed(cn, "dialWithTimeout", e)
    /\ UNCHANGED <<sessVars, srvVars, copyVars, parseVars, clientVars>>

\* connect: if cfg.TLS { tlsConn.HandshakeContext(ctx) }
HandshakeContext ==
    /\ cn.pc = "tls"
    /\ \/ cn' = StepOk(cn, "HandshakeContext", "handshake")
       \/ cn' = StepFailedClose(cn, "HandshakeContext", "ErrTLS")
    /\ UNCHANGED <<sessVars, srvVars, copyVars, parseVars, clientVars>>

\* connect: ws, err := websocket.NewClient(wsConfig, dialConn); then
\* ConnectWithConfig returns ws
NewClient ==
    /\ cn.pc = "handshake"
    /\ \/ cn' = [StepOk(cn, "NewClient", "done") EXCEPT !.ret = "ws"]
       \/ cn' = StepFailedClose(cn, "NewClient", "ErrBadStatus")
    /\ UNCHANGED <<sessVars, srvVars, copyVars, parseVars, clientVars>>

InitConnect == cn = NoConnect(ZeroConfig)

\* ConnectWithConfig on every address of the bounded set, with and without TLS
InitConnectInputs ==
    \E a \in SeqsUpTo(AddrChars, MaxAddrLen), tlsEnabled \in BOOLEAN :
        cn = NoConnect([ZeroConfig EXCEPT !.Addr = a, !.TLS = tlsEnabled])

Init == InitSession /\ InitServer /\ InitCopy /\ InitParse /\ InitClient /\ InitConnect

\* one accepted session, its peers sending payload
NextSession == handleWebSocket(1) \/ TaskStep(1) \/ PeerStep(1)

SessionSpec == Init /\ [][NextSession]_vars

\* the Go scheduler runs every runnable goroutine
FairSessionSpec ==
    /\ SessionSpec
    /\ WF_vars(HandlerTask(1)) /\ WF_vars(GoTask(1)) /\ WF_vars(KeepaliveTask(1))

\* a peer of session s sends the session's only chunk
PeerSendOnce(s, d) == TotalSent(s) = 0 /\ PeerSend(s, d)

\* the sessions run concurrently over the shared pool; session 1 moves a chunk
\* and is ended from either side, session 2 is ended by its target
NextPool ==
    \/ \E s \in Sessions : handleWebSocket(s) \/ TaskStep(s)
    \/ \E t \in {"ws", "conn"} : PeerClose(1, t)
    \/ PeerClose(2, "conn")
    \/ \E d \in Dirs : PeerSendOnce(1, d)

PoolSpec == Init /\ [][NextPool]_vars

\* the Go scheduler runs every runnable goroutine of both sessions
FairPoolSpec ==
    /\ PoolSpec
    /\ \A s \in Sessions :
          WF_vars(HandlerTask(s)) /\ WF_vars(GoTask(s)) /\ WF_vars(KeepaliveTask(s))

\* one session whose copies may cut their buffers short before returning them
NextBuffer ==
    \/ NextSession
    \/ \E d \in Dirs, n \in 0..DefaultBufferSize : Reslice(1, d, n)

BufferSpec == Init /\ [][NextBuffer]_vars

\* the Server, its callers, and one session it serves
Ops == {"Serve", "Shutdown", "Close"}

\* the Server and its callers, calling in any order and again; a connection
\* may come in and be upgraded
NextServer ==
    \/ \E c \in Callers : ServerStep(c) \/ \E op \in Ops : CallBegin(c, op)
    \/ Accept(1) \/ ServeHTTP(1)

ServerSpec == Init /\ [][NextServer]_vars

\* caller c makes its only call
CallOnce(c, op) == call[c].op = "none" /\ CallBegin(c, op)

\* the Server with one call per caller, and the session it serves at work
NextShutdown ==
    \/ \E c \in Callers : ServerStep(c) \/ \E op \in Ops : CallOnce(c, op)
    \/ Accept(1) \/ ServeHTTP(1) \/ TaskStep(1)
    \/ \E t \in {"ws", "conn"} : PeerClose(1, t)
    \/ \E d \in Dirs : PeerSendOnce(1, d)

ShutdownSpec == Init /\ [][NextShutdown]_vars

\* one copy over an arbitrary reader and sink
NextCopy == GenRead \/ GenDeadline \/ GenWrite

CopySpec == Init /\ [][NextCopy]_vars

\* parseAddrAndPort on every address of the bounded set
InitInputs ==
    InitSession /\ InitServer /\ InitCopy /\ InitParseInputs /\ InitClient /\ InitConnect

ParseSpec == InitInputs /\ [][Parse]_vars

\* one connection attempt
InitAttempt ==
    InitSession /\ InitServer /\ InitCopy /\ InitParse /\ InitClient /\ InitConnectInputs

NextConnect ==
    ConnectWithConfig \/ createWebsocketConfig \/ dialWithTimeout \/ HandshakeContext
    \/ NewClient

ConnectSpec == InitAttempt /\ [][NextConnect]_vars

\* one Dialer, its DialContext calls interleaved
NextClient ==
    \/ \E o \in Options : NewDialerOption(o)
    \/ NewDialerReturn
    \/ \E k \in DialCalls : DialClone(k) \/ DialConnect(k) \/ \E o \in Options : DialOption(k, o)

ClientSpec == Init /\ [][NextClient]_vars

(***************************************************************************)
(* Properties.                                                             *)
(***************************************************************************)
CopyEnded(s, d) == cp[s][d].pc \in {"done", "returned"}

\* the dial succeeded and a copy direction returned or a transport was closed
\* by its peer or by the keepalive
SessionEnding(s) ==
    /\ gpc[s] # "none"
    /\ \/ \E d \in Dirs : CopyEnded(s, d)
       \/ tr[s]["ws"].peer \/ tr[s]["conn"].peer \/ tr[s]["ws"].closed

SessionTornDown(s) ==
    /\ tr[s]["ws"].closed /\ tr[s]["conn"].closed
    /\ \A d \in Dirs : CopyEnded(s, d)

\* C1: once the dial succeeded, whenever a copy direction has returned or a
\* transport was closed by its peer or by the keepalive, the handler eventually
\* closes both transports and both copy directions have terminated, also when
\* the remaining peer stays idle.
C1_EitherEndTearsDownSession == SessionEnding(1) ~> SessionTornDown(1)

Rd(s, d) == SubSeq(strm[s][d].sent, 1, strm[s][d].nread)
Wr(s, d) == strm[s][d].wr
IsPrefix(a, b) == Len(a) <= Len(b) /\ SubSeq(b, 1, Len(a)) = a

\* a transport of the session is closed, or the copy of d met an I/O error
Disturbed(s, d) ==
    \/ \E t \in {"ws", "conn"} : tr[s][t].closed \/ tr[s][t].peer
    \/ cp[s][d].err # "nil"

\* C2: in each direction, with both running, the bytes written to the sink are
\* at every moment a prefix of the bytes read from the source, and while no
\* transport is closed and no I/O error occurs every byte read is eventually
\* written.
C2_RoundTripFidelity ==
    /\ [](\A d \in Dirs : IsPrefix(Wr(1, d), Rd(1, d)))
    /\ \A d \in Dirs : (Wr(1, d) # Rd(1, d)) ~> (Wr(1, d) = Rd(1, d) \/ Disturbed(1, d))

\* both directions have delivered a byte while both copies are still running
C2_Witness ==
    /\ \A d \in Dirs : Len(Wr(1, d)) > 0 /\ Wr(1, d) = Rd(1, d)
    /\ \A d \in Dirs : cp[1][d].pc = "read"
    /\ \A t \in {"ws", "conn"} : ~tr[1][t].closed /\ ~tr[1][t].peer

\* C3: when Serve fails to bind, the bind error is what ListenErr() returns,
\* Serve returns that same error, and the "listening" signal has fired.
C3_BindFailure ==
    \A c \in Callers :
        call[c].op = "Serve" /\ call[c].bindFailed /\ call[c].pc \in {"done", "panicked"}
        => /\ srv.listenErr # "nil"
           /\ call[c].ret = srv.listenErr
           /\ srv.onListened

\* C4: over any calls of Serve, Shutdown and Close, each signal fires at most
\* once (once fired it stays fired), and no call crashes because a signal was
\* already delivered.
C4_SignalsFireOnceHarmlessly ==
    /\ [][(srv.onListened => srv'.onListened) /\ (srv.shutdowned => srv'.shutdowned)]_vars
    /\ [](\A c \in Callers : call[c].ret # "panic: close of closed channel")

\* C5: a Shutdown(ctx) (or Close) that has returned either saw its deadline
\* pass or every tunnel session that was mid-transfer when it was called has
\* finished.
C5_ShutdownWaitsForSessions ==
    \A c \in Callers :
        call[c].op \in {"Shutdown", "Close"} /\ call[c].pc = "done"
        => \/ call[c].expired
           \/ \A s \in call[c].inflight : hpc[s] = "done"

Holders(b) == {sd \in Sessions \X Dirs : cp[sd[1]][sd[2]].buf = b}

\* C6: every buffer is either in the pool or held by exactly one copy task,
\* never both and never by two, and a buffer enters the pool only from the
\* task that holds it, after that task's copy loop has finished.
C6_BufferOwnership ==
    /\ [](\A b \in BufIds :
            /\ b \in pool => Holders(b) = {} /\ bufs[b].alloc
            /\ b \notin pool /\ bufs[b].alloc => Cardinality(Holders(b)) = 1
            /\ ~bufs[b].alloc => Holders(b) = {})
    /\ [][\A b \in BufIds :
            b \notin pool /\ b \in pool'
            => \E sd \in Holders(b) : /\ cp[sd[1]][sd[2]].pc = "done"
                                      /\ cp'[sd[1]][sd[2]].buf = 0]_vars

\* session 2 works with a buffer session 1 used before, while session 1 holds
\* another one
C6_Witness ==
    \E b \in BufIds, d \in Dirs :
        /\ cp[2][d].buf = b /\ bufs[b].data # ZeroCells
        /\ \E e \in Dirs : cp[1][e].buf \notin {0, b}

PlainChars(str) == Len(str) > 0 /\ \A i \in 1..Len(str) : str[i] \in {"h", "9"}

\* C7: an address without a port parses to itself with port 80 (443 with TLS);
\* an address host:port parses to host and that port, whatever TLS is.
C7_DefaultAndExplicitPort ==
    pres.called =>
        /\ PlainChars(paddr) =>
              /\ pres.err = "nil" /\ pres.addr = paddr
              /\ pres.port = IF ptls THEN <<"4", "4", "3">> ELSE <<"8", "0">>
        /\ \A host, port \in SeqsUpTo({"h", "9"}, MaxAddrLen) :
              PlainChars(host) /\ PlainChars(port) /\ paddr = host \o <<":">> \o port
              => pres.err = "nil" /\ pres.addr = host /\ pres.port = port

\* C8: once NewDialer returned, the Dialer's configuration stays what it was
\* then, and the configuration of each DialContext call is that configuration
\* with the call's own options applied in order.
C8_NoOptionLeak ==
    dphase.st = "ready" =>
        /\ heap[0] = base0
        /\ \A k \in DialCalls :
              /\ dcall[k].pc = "options" => heap[dcall[k].ptr] = dcall[k].want
              /\ dcall[k].pc = "done" => dcall[k].eff = dcall[k].want

\* two calls ended with configurations of their own over a configured Dialer
C8_Witness ==
    /\ base0 # ZeroConfig
    /\ \A k \in DialCalls : dcall[k].pc = "done" /\ dcall[k].eff # base0
    /\ dcall[1].eff # dcall[2].eff

\* what a write adds to the count: the bytes reported, 0 for an invalid report
Counted(o) == IF o.op # "write" \/ o.n < 0 \/ o.n > o.req THEN 0 ELSE o.n

RECURSIVE SumWritten(_)
SumWritten(log) ==
    IF log = <<>> THEN 0 ELSE Counted(log[Len(log)]) + SumWritten(SubSeq(log, 1, Len(log) - 1))

FailedWrite(o) == o.op = "write" /\ (o.e # "nil" \/ o.n # o.req)

\* C9: the copy stops at the first failed write: it returns the write's error,
\* or a short-write error when fewer bytes than requested were reported with
\* no error; no read or write follows, and the count holds only bytes the sink
\* reported.
C9_StopsAtFirstFailedWrite ==
    \A i \in 1..Len(ops) :
        FailedWrite(ops[i]) =>
            /\ i = Len(ops) /\ cpy.pc = "done"
            /\ ops[i].e # "nil" => cpy.err = ops[i].e
            /\ ops[i].e = "nil" /\ 0 <= ops[i].n /\ ops[i].n < ops[i].req
                  => cpy.err = "ErrShortWrite"
            /\ cpy.err # "nil"
            /\ cpy.written = SumWritten(ops)

\* a short write after a full iteration
C9_Witness ==
    /\ Len(ops) >= 6 /\ cpy.pc = "done" /\ cpy.err = "ErrShortWrite"
    /\ ops[Len(ops)].n > 0 /\ cpy.written > ops[Len(ops)].n

ReadIdx == {i \in 1..Len(ops) : ops[i].op = "read"}
LastRead == CHOOSE i \in ReadIdx : \A j \in ReadIdx : j <= i

\* the loop ended on io.EOF from the source, every write before it in full
EndedByEOF ==
    /\ ReadIdx # {} /\ ops[LastRead].e = "EOF"
    /\ \A i \in 1..Len(ops) : ops[i].op # "read" => ops[i].e = "nil" /\ ops[i].n = ops[i].req

\* C10: the count is the total of the bytes written; the error is nil exactly
\* when the loop ended on EOF with every write before it in full; a read error
\* other than EOF ends the loop and is the error returned, once the bytes that
\* came with that read are written.
C10_CountAndTerminalError ==
    /\ cpy.written = SumWritten(ops)
    /\ cpy.pc = "done" => (cpy.err = "nil" <=> EndedByEOF)
    /\ \A i \in ReadIdx :
          ops[i].e = "ErrRead" =>
             /\ i = LastRead
             /\ ops[i].n = 0 => Len(ops) = i /\ cpy.pc = "done" /\ cpy.err = "ErrRead"
             /\ ops[i].n > 0 /\ Len(ops) = i + 2 /\ ~FailedWrite(ops[i + 2])
                   => cpy.pc = "done" /\ cpy.err = "ErrRead"
             /\ Len(ops) > i => ops[i + 1].op = "deadline"
             /\ Len(ops) > i + 1 => ops[i + 2].op = "write" /\ ops[i + 2].req = ops[i].n
             /\ Len(ops) <= i + 2

\* bytes that came together with io.EOF were written and the copy returned nil
C10_Witness ==
    /\ cpy.pc = "done" /\ cpy.err = "nil" /\ Len(ops) >= 6
    /\ ops[LastRead].n > 0 /\ cpy.written > ops[LastRead].n

\* codec.Send(ws, nil) fails: the connection is closed or its peer is gone
PingFails(s) == tr[s]["ws"].closed \/ tr[s]["ws"].peer

\* C11: a keepalive tick whose ping fails closes the WebSocket connection and
\* ends the keepalive task; an ended keepalive task stays ended and can send no
\* ping; once the session handler has returned the keepalive task eventually
\* ends.
C11_KeepaliveEnds ==
    /\ [][\A s \in Sessions :
            /\ KeepaliveTick(s) /\ PingFails(s)
                  => tr'[s]["ws"].closed /\ kpc'[s] = "done"
            /\ kpc[s] = "done" => kpc'[s] = "done"]_vars
    /\ [](\A s \in Sessions : kpc[s] = "done" => ~ENABLED KeepaliveTick(s))
    /\ (hpc[1] = "done") ~> (kpc[1] = "done")

\* a failed ping closed the connection and ended the keepalive while the
\* handler is still in its copy
C11_Witness ==
    /\ kpc[1] = "done" /\ ~exitc[1] /\ hpc[1] = "copy"
    /\ tr[1]["ws"].closed /\ tr[1]["ws"].peer

\* the dial of session s failed: the handler is past it and the goroutine of
\* handleNetwork was never started
DialFailed(s) == hpc[s] \in {"closeexit", "closews", "done"} /\ gpc[s] = "none"

\* C12: when the dial of the target fails, no copy direction is started and no
\* buffer is checked out, and the session is aborted: eventually the
\* WebSocket connection is closed, the handler has returned and the keepalive
\* task has ended.
C12_DialFailureAborts ==
    /\ [](DialFailed(1) =>
            /\ \A d \in Dirs : cp[1][d] = NoCopy
            /\ pool = {} /\ \A b \in BufIds : ~bufs[b].alloc)
    /\ [][hpc[1] = "dial" /\ hpc'[1] \notin {"dial", "get"} => DialFailed(1)' /\ tr' = tr]_vars
    /\ DialFailed(1) ~> (tr[1]["ws"].closed /\ hpc[1] = "done" /\ kpc[1] = "done")

\* the session was aborted after a failed dial while its client was still there
C12_Witness ==
    /\ DialFailed(1) /\ hpc[1] = "done" /\ kpc[1] = "done"
    /\ tr[1]["ws"].closed /\ ~tr[1]["ws"].peer

\* C13: every buffer obtained from the pool has its full capacity as length:
\* the slice a copy was handed at checkout is DefaultBufferSize long, and so is
\* every pooled buffer, however a previous holder cut it.
C13_FullCapacityOnCheckout ==
    /\ \A d \in Dirs : cp[1][d].buf # 0 => cp[1][d].len = DefaultBufferSize
    /\ \A b \in pool : bufs[b].len = DefaultBufferSize

\* the TCP -> WebSocket copy was handed, at full length, the buffer that the
\* other copy had filled, cut short and returned
C13_Witness ==
    \E b \in BufIds :
        /\ cp[1]["t2w"].buf = b /\ cp[1]["t2w"].len = DefaultBufferSize
        /\ bufs[b].cut /\ bufs[b].len = DefaultBufferSize
        /\ bufs[b].data # ZeroCells /\ strm[1]["t2w"].nread = 0

Slashed(path) == Len(path) > 0 /\ path[1] = "/"

\* C14: whenever generateDialConfig succeeds, the path of the dial
\* configuration begins with "/": a path that began with "/" is unchanged, any
\* other path (the empty one included) has exactly one "/" prepended.
C14_PathHasLeadingSlash ==
    \A k \in DialCalls :
        dcall[k].pc = "done" /\ dcall[k].res.err = "nil" =>
            LET in == dcall[k].eff.Path
                out == dcall[k].res.cfg.Path
            IN  /\ Slashed(out)
                /\ Slashed(in) => out = in
                /\ ~Slashed(in) => out = <<"/">> \o in

\* one call succeeded with a path it had to prefix, the other with a path that
\* already began with "/"
C14_Witness ==
    /\ \A k \in DialCalls : dcall[k].pc = "done" /\ dcall[k].res.err = "nil"
    /\ ~Slashed(dcall[1].eff.Path) /\ Len(dcall[1].eff.Path) > 0
    /\ Slashed(dcall[2].eff.Path)

\* C15: the "shutdown" signal has never fired while the "listening" signal
\* has not.
C15_ListeningBeforeShutdown == srv.shutdowned => srv.onListened

\* C19: when the "listening" signal fires while a call of Serve is under way,
\* the bind attempt of Serve is over: the listener is bound or ListenErr()
\* returns the bind error.
C19_ListeningImpliesBindDone ==
    [][(\E c \in Callers : call[c].op = "Serve") /\ ~srv.onListened /\ srv'.onListened
          => srv'.bound \/ srv'.listenErr # "nil"]_vars

\* C16: every write follows at once a SetWriteDeadline that succeeded, itself
\* made right after the read that gave the bytes written; a SetWriteDeadline
\* that fails is the last operation of the copy, which returns its error.
C16_DeadlineBeforeEachWrite ==
    \A i \in 1..Len(ops) :
        /\ ops[i].op = "write" =>
              /\ i >= 3 /\ ops[i].req > 0
              /\ ops[i - 1].op = "deadline" /\ ops[i - 1].e = "nil"
              /\ ops[i - 2].op = "read" /\ ops[i - 2].n = ops[i].req
        /\ ops[i].op = "deadline" =>
              /\ i >= 2 /\ ops[i - 1].op = "read" /\ ops[i - 1].n > 0
              /\ ops[i].e # "nil" =>
                    i = Len(ops) /\ cpy.pc = "done" /\ cpy.err = ops[i].e

\* after one full iteration the deadline of the second write could not be set
C16_Witness ==
    /\ Len(ops) = 5 /\ cpy.pc = "done" /\ cpy.err = "ErrDeadline"
    /\ ops[3].op = "write" /\ ops[5].op = "deadline" /\ cpy.written > 0

\* the steps of a connection attempt, in their order
StepOrder(tlsEnabled) ==
    <<"generateDialConfig", "createWebsocketConfig", "dialWithTimeout">>
    \o (IF tlsEnabled THEN <<"HandshakeContext">> ELSE <<>>) \o <<"NewClient">>

Dialed == \E i \in 1..Len(cn.log) : cn.log[i].step = "dialWithTimeout" /\ cn.log[i].err = "nil"

\* C17: the steps made are an initial part of: address parsing, WebSocket
\* config, TCP dial, TLS handshake (with TLS only), WebSocket handshake, each
\* made once; a step that fails is the last one, the attempt returns its error
\* and no connection, and a connection that was dialed is closed by then; an
\* attempt without a failed step returns the connection after all the steps.
C17_ConnectStepOrder ==
    /\ Len(cn.log) <= Len(StepOrder(cn.cfg.TLS))
    /\ \A i \in 1..Len(cn.log) :
          /\ cn.log[i].step = StepOrder(cn.cfg.TLS)[i]
          /\ cn.log[i].err # "nil" =>
                /\ i = Len(cn.log) /\ cn.pc = "done"
                /\ cn.err = cn.log[i].err /\ cn.ret = "nil"
                /\ Dialed => cn.conn = "closed"
                /\ ~Dialed => cn.conn = "none"
    /\ cn.pc = "done" /\ cn.err = "nil" =>
          /\ Len(cn.log) = Len(StepOrder(cn.cfg.TLS))
          /\ cn.ret = "ws" /\ cn.conn = "open"
    /\ cn.pc # "done" => cn.ret = "none" /\ cn.err = "nil"

\* the TLS handshake failed after the dial had succeeded
C17_Witness ==
    /\ cn.pc = "done" /\ cn.err = "ErrTLS" /\ cn.conn = "closed" /\ Len(cn.log) = 4

\* host and server name of `out` are those of `in`, an unset one filled in
\* from the other, and both from `address` when both are unset
FilledFrom(in, out, address) ==
    /\ in.Host # <<>> => out.Host = in.Host
    /\ in.ServerName # <<>> => out.ServerName = in.ServerName
    /\ in.Host = <<>> /\ in.ServerName # <<>> => out.Host = in.ServerName
    /\ in.Host # <<>> /\ in.ServerName = <<>> => out.ServerName = in.Host
    /\ in.Host = <<>> /\ in.ServerName = <<>> =>
          out.Host = address /\ out.ServerName = address
    /\ address # <<>> => out.Host # <<>> /\ out.ServerName # <<>>

\* C18: after a successful generateDialConfig a host or server name that was
\* set is kept, an unset one takes the other's value, and when both are unset
\* both become the host part of the configured address (the address without
\* its port); with a non-empty host part neither is empty.
C18_HostAndServerNameFilled ==
    \A k \in DialCalls :
        dcall[k].pc = "done" /\ dcall[k].res.err = "nil" =>
            FilledFrom(dcall[k].eff, dcall[k].res.cfg, dcall[k].res.splitAddr)

\* C18 as stated: when both are unset both become the configured dial address.
C18_Original ==
    \A k \in DialCalls :
        dcall[k].pc = "done" /\ dcall[k].res.err = "nil" =>
            FilledFrom(dcall[k].eff, dcall[k].res.cfg, dcall[k].eff.Addr)

\* one call succeeded with neither set and an address with a port, the other
\* with the host alone set
C18_Witness ==
    /\ \A k \in DialCalls : dcall[k].pc = "done" /\ dcall[k].res.err = "nil"
    /\ dcall[1].eff.Host = <<>> /\ dcall[1].eff.ServerName = <<>>
    /\ dcall[1].res.splitAddr # <<>> /\ dcall[1].res.splitAddr # dcall[1].eff.Addr
    /\ dcall[2].eff.Host # <<>> /\ dcall[2].eff.ServerName = <<>>
    /\ dcall[2].res.splitAddr # dcall[2].eff.Host

\* the buffers the copies of session s hold
Held(s) == {b \in BufIds : \E d \in Dirs : cp[s][d].buf = b}

\* every task of session s is over: the handler, the goroutine of
\* handleNetwork (if the dial got that far) and the keepalive
Ended(s) == hpc[s] = "done" /\ gpc[s] \in {"none", "done"} /\ kpc[s] = "done"

\* C20: a session holds at most two buffers, one per copy direction; once its
\* handler has returned, its WebSocket -> TCP copy task and its keepalive task
\* eventually end and it holds no buffer; when every session has ended, every
\* buffer is back in the pool.  A returned handler stays returned and an ended
\* session stays ended, so "eventually" is stated as recurring for ever.
C20_NoLeakAfterHandlerReturns ==
    /\ [](\A s \in Sessions :
            /\ Cardinality(Held(s)) <= 2
            /\ Ended(s) => Held(s) = {})
    /\ []((\A s \in Sessions : Ended(s)) => \A b \in BufIds : bufs[b].alloc => b \in pool)
    /\ []<>(\A s \in Sessions : hpc[s] = "done" => (Ended(s) /\ Held(s) = {}))

\* both sessions used two buffers each and have ended; all four are pooled
C20_Witness ==
    /\ \A s \in Sessions : Ended(s) /\ gpc[s] = "done"
    /\ Cardinality(pool) = 4
====
